---- MODULE Spec2Model ----
(***************************************************************************)
(* Viewport virtualization engine of the Spatial Directory Explorer:       *)
(* VirtualizedRenderer (src/js/virtualizer.js) together with the pooling   *)
(* and incremental-processing helpers it uses from the Performance module  *)
(* (src/js/performance.js).                                                *)
(*                                                                         *)
(* Every method of the engine is an operator from an engine state `s` (a   *)
(* record holding the fields of `this`) to the engine state after the      *)
(* call, so that nested calls compose as they do in the source.  The       *)
(* actions at the end apply one entry point each (a public call, an        *)
(* animation tick, a timer, an observer callback) to the variables.        *)
(*                                                                         *)
(* Numbers: positions, sizes and translations are integers (pixels).  The  *)
(* zoom scale is a fixed-point number in units of 1/ScaleDen; a content    *)
(* space coordinate c/scale is kept as the numerator c*ScaleDen over the   *)
(* denominator scale, and every comparison, floor and ceil is computed     *)
(* exactly on those rationals.                                             *)
(***************************************************************************)
EXTENDS Integers, Sequences, FiniteSets, TLC

VARIABLES
    itemData,          \* this.itemData: Map path -> item, in insertion order
    spatialIndex,      \* this.spatialIndex: [bins, items]
    visibleItems,      \* this.visibleItems: Map path -> element
    handles,           \* every element a pool factory has created, by identity
    directoryPool,     \* idle list of this.directoryPool
    filePool,          \* idle list of this.filePool
    poolSettings,      \* settings of the two pools (initialSize, maxSize, growthRate)
    transform,         \* this.transform
    appliedTransform,  \* viewport.style.transform as last written by applyTransform
    viewportRect,      \* this.viewportRect (width, height of the container)
    isRendering,       \* this.isRendering
    renderScheduled,   \* this.renderScheduled
    enabled,           \* this.enabled
    container,         \* whether this.container is an element (querySelector found it)
    initialized,       \* this.initialized
    poolFaults,        \* the callbacks of the pools that throw: "create", "reset"
    listening,         \* the notifications the engine is registered for
    rafCallbacks,      \* callbacks registered with requestAnimationFrame, not yet run
    tasks,             \* processBatch continuations queued with setTimeout
    faulty,            \* paths whose content update throws
    dispatched         \* detail of the CustomEvent the current step dispatched

vars == <<itemData, spatialIndex, visibleItems, handles, directoryPool, filePool,
          poolSettings, transform, appliedTransform, viewportRect, isRendering,
          renderScheduled, enabled, container, initialized, poolFaults,
          listening, rafCallbacks, tasks, faulty, dispatched>>

(***************************************************************************)
(* Program constants                                                       *)
(***************************************************************************)
ItemWidth == 100
ItemHeight == 120
RenderMargin == 300
RecycleThreshold == 100
LodLevels == 3
DetailDistanceThreshold == 300
BinSize == 500
InitialSize == 10
GrowthRate == 5
ScaleDen == 20
\* options.lodThresholds [1.0, 0.5, 0.2] in units of 1/ScaleDen
LodThresholds == <<20, 10, 4>>
EnableCulling == TRUE

(***************************************************************************)
(* Bounds of the model                                                     *)
(***************************************************************************)
\* options.batchSize as configured for the model
BatchSize == 1
\* processBatch continuations that may be queued at once
MaxTasks == 1
\* elements that are neither idle in a pool nor in visibleItems
MaxStray == 1
\* elements the factories may create over a run
MaxHandles == 24

(***************************************************************************)
(* Values                                                                  *)
(***************************************************************************)
NoPath == ""
NoPos == [x |-> 0 - 1000000, y |-> 0 - 1000000]
NoItem == [path |-> NoPath, name |-> "", type |-> "", position |-> NoPos]
\* this.viewportRect and this.containerRect while they are null
NoRect == [width |-> 0 - 1, height |-> 0 - 1]

Min(a, b) == IF a < b THEN a ELSE b
Range(seq) == {seq[i] : i \in 1..Len(seq)}

\* Math.floor(n / d) and Math.ceil(n / d) for d > 0
Floor(n, d) == n \div d
Ceil(n, d) == 0 - ((0 - n) \div d)

(***************************************************************************)
(* Map and Set of JavaScript, which iterate in insertion order             *)
(***************************************************************************)
\* Set.add on a Set kept as a sequence without repetition
SetAdd(seq, e) == IF e \in Range(seq) THEN seq ELSE Append(seq, e)
\* Set.delete
SetDelete(seq, e) == SelectSeq(seq, LAMBDA v : v # e)

\* this.itemData.has / get / set / delete (Map keyed by item.path)
DataPaths(data) == {data[i].path : i \in 1..Len(data)}
DataGet(data, path) ==
    IF path \in DataPaths(data)
    THEN data[CHOOSE i \in 1..Len(data) : data[i].path = path]
    ELSE NoItem
DataSet(data, item) ==
    IF item.path \in DataPaths(data)
    THEN [i \in 1..Len(data) |-> IF data[i].path = item.path THEN item ELSE data[i]]
    ELSE Append(data, item)
DataDelete(data, path) == SelectSeq(data, LAMBDA it : it.path # path)

\* Map.set / Map.delete on a Map kept as a function
MapSet(m, k, v) == [x \in DOMAIN m \cup {k} |-> IF x = k THEN v ELSE m[x]]
MapDelete(m, k) == [x \in DOMAIN m \ {k} |-> m[x]]
EmptyMap == [x \in {} |-> 0]

(***************************************************************************)
(* Spatial index                                                           *)
(***************************************************************************)
\* The keys of the cells that the box of an item overlaps, in the same order
ItemBinKeysOverlap(item) ==
    LET startBinX == Floor(item.position.x, BinSize)
        startBinY == Floor(item.position.y, BinSize)
        endBinX == Ceil(item.position.x + ItemWidth, BinSize) - 1
        endBinY == Ceil(item.position.y + ItemHeight, BinSize) - 1
        ny == endBinY - startBinY + 1
        nx == endBinX - startBinX + 1
    IN [i \in 1..(nx * ny) |->
            <<startBinX + ((i - 1) \div ny), startBinY + ((i - 1) % ny)>>]

\* The bin keys an item covers, in the order of the two nested loops
ItemBinKeys(item) ==
    LET startBinX == Floor(item.position.x, BinSize)
        startBinY == Floor(item.position.y, BinSize)
        endBinX == Ceil(item.position.x + ItemWidth, BinSize)
        endBinY == Ceil(item.position.y + ItemHeight, BinSize)
        ny == endBinY - startBinY + 1
        nx == endBinX - startBinX + 1
    IN [i \in 1..(nx * ny) |->
            <<startBinX + ((i - 1) \div ny), startBinY + ((i - 1) % ny)>>]

\* bins.get(binKey).add(path) for each key, creating the bins that are missing
RECURSIVE AddToBins(_, _, _)
AddToBins(bins, path, keys) ==
    IF keys = <<>> THEN bins
    ELSE LET k == Head(keys)
             bin == IF k \in DOMAIN bins THEN bins[k] ELSE <<>>
         IN AddToBins(MapSet(bins, k, SetAdd(bin, path)), path, Tail(keys))

\* bin.delete(path) for each recorded key, the bins that become empty staying
RECURSIVE RemoveFromBinsKeepEmpty(_, _, _)
RemoveFromBinsKeepEmpty(bins, path, keys) ==
    IF keys = <<>> THEN bins
    ELSE IF Head(keys) \in DOMAIN bins
    THEN RemoveFromBinsKeepEmpty(
             MapSet(bins, Head(keys), SetDelete(bins[Head(keys)], path)),
             path, Tail(keys))
    ELSE RemoveFromBinsKeepEmpty(bins, path, Tail(keys))

\* bin.delete(path) for each recorded key, deleting the bins that become empty
RECURSIVE RemoveFromBins(_, _, _)
RemoveFromBins(bins, path, keys) ==
    IF keys = <<>> THEN bins
    ELSE LET k == Head(keys)
         IN IF k \in DOMAIN bins
            THEN LET bin == SetDelete(bins[k], path)
                 IN RemoveFromBins(IF Len(bin) = 0 THEN MapDelete(bins, k)
                                                   ELSE MapSet(bins, k, bin),
                                   path, Tail(keys))
            ELSE RemoveFromBins(bins, path, Tail(keys))

\* One iteration of the itemData.forEach of buildSpatialIndex
IndexItem(index, item) ==
    LET itemBins == ItemBinKeys(item)
    IN [bins |-> AddToBins(index.bins, item.path, itemBins),
        items |-> MapSet(index.items, item.path, itemBins)]

RECURSIVE IndexItems(_, _)
IndexItems(index, data) ==
    IF data = <<>> THEN index
    ELSE IndexItems(IndexItem(index, Head(data)), Tail(data))

EmptyIndex == [bins |-> EmptyMap, items |-> EmptyMap]

BuildSpatialIndex(data) == IndexItems(EmptyIndex, data)

\* An updateItemInSpatialIndex that leaves the path in its old bins
AddToSpatialIndex(index, item) ==
    [bins |-> AddToBins(index.bins, item.path, ItemBinKeys(item)),
     items |-> MapSet(index.items, item.path, ItemBinKeys(item))]

UpdateItemInSpatialIndex(index, item) ==
    LET removed ==
            IF item.path \in DOMAIN index.items
            THEN RemoveFromBins(index.bins, item.path, index.items[item.path])
            ELSE index.bins
        itemBins == ItemBinKeys(item)
    IN [bins |-> AddToBins(removed, item.path, itemBins),
        items |-> MapSet(index.items, item.path, itemBins)]

\* A removeItem that leaves the spatial index as it is
KeepInSpatialIndex(index, path) == index

\* A removeItem that clears the spatial index
ClearSpatialIndex(index, path) == EmptyIndex

\* The spatial-index part of removeItem
RemoveFromSpatialIndex(index, path) ==
    IF path \in DOMAIN index.items
    THEN [bins |-> RemoveFromBins(index.bins, path, index.items[path]),
          items |-> MapDelete(index.items, path)]
    ELSE index

(***************************************************************************)
(* Elements (renderable handles) and the two object pools                  *)
(***************************************************************************)
NoHandle == 0

\* createElementTemplate(type): a hidden, detached element without listeners.
\* listeners is the item captured by the three listener closures of
\* updateElement (NoItem while dataset.hasListeners is unset).  collected marks
\* an element a pool has dropped, which nothing references any more.
CreateElementTemplate(type) ==
    [type |-> type, path |-> NoPath, display |-> FALSE, parent |-> FALSE,
     observed |-> FALSE, listeners |-> NoItem, detailLevel |-> 0,
     position |-> NoPos, name |-> "", collected |-> FALSE]

\* resetElement(el) as it acts on el itself: the clone it builds takes el's place
\* in the document (el is left detached) and is returned, and release() drops
\* the returned clone; el keeps its listeners and its other data attributes.
ResetElement(el) ==
    [el EXCEPT !.display = FALSE, !.position = NoPos, !.path = NoPath,
               !.parent = FALSE]

PoolOf(s, type) == IF type = "directory" THEN s.directoryPool ELSE s.filePool
SetPool(s, type, pool) ==
    IF type = "directory" THEN [s EXCEPT !.directoryPool = pool]
                          ELSE [s EXCEPT !.filePool = pool]

\* createFunc(): the new element is the last of s.handles
CreateFunc(s, type) ==
    IF "create" \in s.poolFaults THEN [s EXCEPT !.threw = TRUE]
    ELSE [s EXCEPT !.handles = Append(@, CreateElementTemplate(type))]

\* n times try { pool.push(createFunc()) } catch { log }: a createFunc that
\* throws pushes nothing, in each of the three loops of the pool
RECURSIVE PoolFill(_, _, _)
PoolFill(s, type, n) ==
    IF n <= 0 \/ "create" \in s.poolFaults THEN s
    ELSE LET c == CreateFunc(s, type)
         IN PoolFill(SetPool(c, type, Append(PoolOf(c, type), Len(c.handles))),
                     type, n - 1)

\* createObjectPool(name, createFunc, resetFunc, {initialSize, maxSize})
CreateObjectPool(s, type) == PoolFill(SetPool(s, type, <<>>), type, s.poolSettings.initialSize)

\* return createFunc(): the element created last, or the exception of createFunc
\* on its way to the caller of get()
Created(c) == [s |-> c, obj |-> IF c.threw THEN NoHandle ELSE Len(c.handles)]

\* objectPool.get(): the state after the call and the element returned
PoolGet(s, type) ==
    LET pool == PoolOf(s, type)
    IN IF Len(pool) > 0
       THEN [s |-> SetPool(s, type, SubSeq(pool, 1, Len(pool) - 1)),
             obj |-> pool[Len(pool)]]
       ELSE LET newItems == Min(s.poolSettings.growthRate,
                                s.poolSettings.maxSize - Len(pool))
            IN Created(CreateFunc(PoolFill(s, type, newItems - 1), type))

\* A release(obj) that pushes whatever the size of the idle list
PoolReleaseUnbounded(s, type, obj) ==
    IF obj = NoHandle THEN s
    ELSE SetPool([s EXCEPT !.handles[obj] = ResetElement(@)], type,
                 Append(PoolOf(s, type), obj))

\* objectPool.release(obj): at maxSize the reset element is dropped; a resetFunc
\* that throws is caught and obj is not pushed
PoolRelease(s, type, obj) ==
    IF obj = NoHandle THEN s
    ELSE IF "reset" \in s.poolFaults THEN [s EXCEPT !.handles[obj].collected = TRUE]
    ELSE LET r == [s EXCEPT !.handles[obj] = ResetElement(@)]
         IN IF Len(PoolOf(r, type)) < r.poolSettings.maxSize
            THEN SetPool(r, type, Append(PoolOf(r, type), obj))
            ELSE [r EXCEPT !.handles[obj].collected = TRUE]

\* objectPool.clear(): pool.length = 0 drops every idle element
PoolClear(s, type) ==
    SetPool([s EXCEPT !.handles =
                [h \in 1..Len(s.handles) |->
                    IF h \in Range(PoolOf(s, type))
                    THEN [s.handles[h] EXCEPT !.collected = TRUE]
                    ELSE s.handles[h]]],
            type, <<>>)

\* objectPool.prewarm(size)
PoolPrewarm(s, type, size) ==
    LET targetSize == Min(size, s.poolSettings.maxSize)
        itemsToCreate == targetSize - Len(PoolOf(s, type))
    IN IF itemsToCreate <= 0 THEN s ELSE PoolFill(s, type, itemsToCreate)

\* setupObjectPools(): the directory pool, then the file pool
SetupObjectPools(s) == CreateObjectPool(CreateObjectPool(s, "directory"), "file")

\* recycleElement(element)
RecycleElement(s, element) ==
    IF element = NoHandle THEN s
    ELSE LET u == [s EXCEPT !.handles[element].observed = FALSE]
         IN IF u.handles[element].type = "directory"
            THEN PoolRelease(u, "directory", element)
            ELSE PoolRelease(u, "file", element)

(***************************************************************************)
(* Viewport model                                                          *)
(***************************************************************************)
\* getVisibleContentRect(): numerators over the denominator transform.scale
GetVisibleContentRect(s) ==
    LET tx == s.transform.translateX
        ty == s.transform.translateY
    IN [left |-> (0 - tx) * ScaleDen,
        top |-> (0 - ty) * ScaleDen,
        right |-> (0 - tx) * ScaleDen + s.viewportRect.width * ScaleDen,
        bottom |-> (0 - ty) * ScaleDen + s.viewportRect.height * ScaleDen,
        width |-> s.viewportRect.width * ScaleDen,
        height |-> s.viewportRect.height * ScaleDen]

\* The rectangle without a margin around it
ExpandedRectNoMargin(rect) ==
    [left |-> rect.left, top |-> rect.top, right |-> rect.right, bottom |-> rect.bottom]

\* The rectangle expanded by options.renderMargin / scale on its four sides
ExpandedRect(rect) ==
    LET margin == RenderMargin * ScaleDen
    IN [left |-> rect.left - margin, top |-> rect.top - margin,
        right |-> rect.right + margin, bottom |-> rect.bottom + margin]

\* isItemVisible(item, rect)
IsItemVisible(s, item, rect) ==
    LET visibleRect == ExpandedRect(rect)
        scale == s.transform.scale
        itemRight == item.position.x + ItemWidth
        itemBottom == item.position.y + ItemHeight
    IN ~(\/ itemRight * scale < visibleRect.left
         \/ item.position.x * scale > visibleRect.right
         \/ itemBottom * scale < visibleRect.top
         \/ item.position.y * scale > visibleRect.bottom)

\* The bin keys of a query over the rectangle without its margin
QueryBinKeysNoMargin(s, visibleRect) ==
    LET den == s.transform.scale * BinSize
        startBinX == Floor(visibleRect.left, den)
        startBinY == Floor(visibleRect.top, den)
        endBinX == Ceil(visibleRect.right, den)
        endBinY == Ceil(visibleRect.bottom, den)
        ny == endBinY - startBinY + 1
        nx == endBinX - startBinX + 1
    IN [i \in 1..(nx * ny) |->
            <<startBinX + ((i - 1) \div ny), startBinY + ((i - 1) % ny)>>]

\* The bin keys of the query, in the order of the two nested loops
QueryBinKeys(s, visibleRect) ==
    LET expandedRect == ExpandedRect(visibleRect)
        den == s.transform.scale * BinSize
        startBinX == Floor(expandedRect.left, den)
        startBinY == Floor(expandedRect.top, den)
        endBinX == Ceil(expandedRect.right, den)
        endBinY == Ceil(expandedRect.bottom, den)
        ny == endBinY - startBinY + 1
        nx == endBinX - startBinX + 1
    IN [i \in 1..(nx * ny) |->
            <<startBinX + ((i - 1) \div ny), startBinY + ((i - 1) % ny)>>]

\* bin.forEach: add to the result Set the items of the paths of one bin
RECURSIVE CollectBin(_, _, _)
CollectBin(s, found, bin) ==
    IF bin = <<>> THEN found
    ELSE LET item == DataGet(s.itemData, Head(bin))
         IN CollectBin(s, IF item # NoItem THEN SetAdd(found, item) ELSE found,
                       Tail(bin))

\* The loop body for the keys that have a bin, in the order of the loops
RECURSIVE CollectBins(_, _, _)
CollectBins(s, found, keys) ==
    IF keys = <<>> THEN found
    ELSE CollectBins(s, CollectBin(s, found, s.spatialIndex.bins[Head(keys)]),
                     Tail(keys))

\* queryVisibleItemsFromSpatialIndex(visibleRect): keys without a bin are skipped
QueryVisibleItemsFromSpatialIndex(s, visibleRect) ==
    CollectBins(s, <<>>,
                SelectSeq(QueryBinKeys(s, visibleRect),
                          LAMBDA k : k \in DOMAIN s.spatialIndex.bins))

\* The linear scan of getItemsInViewport
LinearScan(s, visibleRect) ==
    SelectSeq(s.itemData, LAMBDA item : IsItemVisible(s, item, visibleRect))

\* getItemsInViewport()
GetItemsInViewport(s) ==
    LET visibleRect == GetVisibleContentRect(s)
    IN IF Cardinality(DOMAIN s.spatialIndex.items) > 0 /\ EnableCulling
       THEN QueryVisibleItemsFromSpatialIndex(s, visibleRect)
       ELSE LinearScan(s, visibleRect)

\* A getDetailLevel whose loop over the thresholds keeps the last one met
GetDetailLevelLast(s, item) ==
    LET met == {i \in 1..Len(LodThresholds) : s.transform.scale >= LodThresholds[i]}
    IN IF met # {} THEN CHOOSE i \in met : \A j \in met : i >= j ELSE LodLevels

\* getDetailLevel(item).  Below every threshold the level follows the distance
\* of the item's center from the center of the visible rectangle: with
\* dx = dxn / scale, dy = dyn / scale and threshold = 300 ScaleDen / scale,
\* distance < k threshold  iff  dxn^2 + dyn^2 < (k 300 ScaleDen)^2.  (The
\* numerators of the rectangle are multiples of ScaleDen, so their halves are
\* whole numbers.)
GetDetailLevel(s, item) ==
    LET scale == s.transform.scale
        met == {i \in 1..Len(LodThresholds) : scale >= LodThresholds[i]}
        rect == GetVisibleContentRect(s)
        dxn == scale * (item.position.x + (ItemWidth \div 2))
                 - (rect.left + (rect.width \div 2))
        dyn == scale * (item.position.y + (ItemHeight \div 2))
                 - (rect.top + (rect.height \div 2))
        d2 == dxn * dxn + dyn * dyn
        t == DetailDistanceThreshold * ScaleDen
    IN IF LodLevels = 1 THEN 1
       ELSE IF met # {} THEN CHOOSE i \in met : \A j \in met : i <= j
       ELSE IF d2 < t * t THEN 1
       ELSE IF d2 < (2 * t) * (2 * t) THEN 2
       ELSE 3

\* applyTransform(): writes the transform to the viewport element, which is the
\* container or an element inside it; without one it returns
ApplyTransform(s) ==
    IF ~s.container THEN s ELSE [s EXCEPT !.appliedTransform = s.transform]

(***************************************************************************)
(* Renderer                                                                *)
(***************************************************************************)
\* updateElement(element, item).  s.threw marks an exception on its way up the
\* call stack; the content update of an item whose path is in s.faulty throws.
UpdateElement(s, element, item) ==
    IF item.path \in s.faulty
    THEN [s EXCEPT !.threw = TRUE]
    ELSE [s EXCEPT !.handles[element] =
            [@ EXCEPT !.position = item.position,
                      !.path = item.path,
                      !.name = item.name,
                      !.detailLevel = GetDetailLevel(s, item),
                      !.listeners = IF @ = NoItem THEN item ELSE @]]

\* renderItem(item) after updateElement returned or threw: the element is shown,
\* appended to the viewport, recorded in visibleItems and observed
ShowElement(u, element, item) ==
    IF u.threw THEN u
    ELSE [u EXCEPT !.handles[element] =
                       [@ EXCEPT !.display = TRUE, !.parent = TRUE,
                                 !.observed = TRUE],
                   !.visibleItems = MapSet(@, item.path, element)]

\* renderItem(item) with the element the pool returned; an exception of get()
\* goes up to the caller of renderItem
RenderElement(got, item) ==
    IF got.s.threw THEN got.s
    ELSE ShowElement(UpdateElement(got.s, got.obj, item), got.obj, item)

\* renderItem(item)
RenderItem(s, item) ==
    RenderElement(PoolGet(s, IF item.type = "directory" THEN "directory"
                                                        ELSE "file"),
                  item)

\* updateItemPosition(item)
UpdateItemPosition(s, item) ==
    IF item.path \notin DOMAIN s.visibleItems THEN s
    ELSE LET element == s.visibleItems[item.path]
             moved == [s EXCEPT !.handles[element].position = item.position]
             recorded == s.handles[element].detailLevel
             currentDetailLevel == IF recorded = 0 THEN 1 ELSE recorded
             newDetailLevel == GetDetailLevel(s, item)
         IN IF currentDetailLevel # newDetailLevel
            THEN UpdateElement(
                     [moved EXCEPT !.handles[element].detailLevel = newDetailLevel],
                     element, item)
            ELSE moved

\* The processFunc render() hands to processIncrementally
ProcessFunc(s, item) ==
    IF item.path \notin DOMAIN s.visibleItems
    THEN RenderItem(s, item)
    ELSE UpdateItemPosition(s, item)

\* for (i = start; i < end; i++) processFunc(items[i]), left at the first throw;
\* r is the state after processFunc(items[i])
RECURSIVE ProcessRange(_, _, _, _)
RECURSIVE ProcessRest(_, _, _, _)
ProcessRange(s, items, i, end) ==
    IF i >= end THEN s
    ELSE ProcessRest(ProcessFunc(s, items[i + 1]), items, i, end)
ProcessRest(r, items, i, end) ==
    IF r.threw THEN r ELSE ProcessRange(r, items, i + 1, end)

\* A processBatch() that never hands the rest to setTimeout
EndBatchDropRest(r, items, end) == [r EXCEPT !.threw = FALSE]

\* processBatch() after its loop: the catch rejects the promise and nothing is
\* rescheduled; otherwise processedCount = end and, with items left, the next
\* batch is handed to setTimeout
EndBatch(r, items, end) ==
    IF r.threw THEN [r EXCEPT !.threw = FALSE]
    ELSE IF end < Len(items)
    THEN [r EXCEPT !.tasks = Append(@, [items |-> items, processedCount |-> end])]
    ELSE r

\* processBatch() of processIncrementally, for the batch that starts at
\* processedCount
ProcessBatch(s, items, processedCount) ==
    EndBatch(ProcessRange(s, items, processedCount,
                          Min(processedCount + BatchSize, Len(items))),
             items, Min(processedCount + BatchSize, Len(items)))

\* Performance.processIncrementally(items, processFunc, {batchSize, interval: 0})
ProcessIncrementally(s, items) ==
    IF Len(items) = 0 THEN s ELSE ProcessBatch(s, items, 0)

\* render().  While this.viewportRect is null getVisibleContentRect throws
\* inside the try, and the catch logs the error.
Render(s) ==
    IF s.isRendering \/ ~s.enabled THEN s
    ELSE IF s.viewportRect = NoRect THEN ApplyTransform(s)
    ELSE LET a == ApplyTransform([s EXCEPT !.isRendering = TRUE])
             itemsToRender == GetItemsInViewport(a)
             p == ProcessIncrementally(a, itemsToRender)
         IN [p EXCEPT !.isRendering = FALSE]

\* scheduleRender() without the test of renderScheduled
ScheduleRenderUnguarded(s) ==
    IF s.enabled
    THEN [s EXCEPT !.renderScheduled = TRUE, !.rafCallbacks = @ + 1]
    ELSE s

\* scheduleRender()
ScheduleRender(s) ==
    IF ~s.renderScheduled /\ s.enabled
    THEN [s EXCEPT !.renderScheduled = TRUE, !.rafCallbacks = @ + 1]
    ELSE s

\* A callback that clears the flag and runs no pass
RafCallbackIdle(s) == [s EXCEPT !.rafCallbacks = @ - 1, !.renderScheduled = FALSE]

\* The callback scheduleRender registers with requestAnimationFrame
RafCallback(s) ==
    LET r == Render([s EXCEPT !.rafCallbacks = @ - 1])
    IN [r EXCEPT !.renderScheduled = FALSE]

\* The setTimeout continuation of processBatch that is due first
TimerCallback(s) ==
    LET task == Head(s.tasks)
    IN ProcessBatch([s EXCEPT !.tasks = Tail(@)], task.items, task.processedCount)

(***************************************************************************)
(* Observers                                                               *)
(***************************************************************************)
\* What the IntersectionObserver (root: container, rootMargin: renderMargin px,
\* threshold 0) reports for an observed element: whether its box, laid out
\* under the transform written to the viewport, meets the container's
\* rectangle grown by the margin
IsIntersecting(s, element) ==
    LET laidOut == [s EXCEPT !.transform = s.appliedTransform]
    IN IsItemVisible(laidOut, [position |-> s.handles[element].position],
                     GetVisibleContentRect(laidOut))

\* handleIntersection(entries) for one entry
HandleIntersection(s, target, isIntersecting) ==
    LET path == s.handles[target].path
    IN IF path = NoPath THEN s
       ELSE IF isIntersecting
       THEN IF path \notin DOMAIN s.visibleItems THEN ScheduleRender(s) ELSE s
       ELSE IF path \in DOMAIN s.visibleItems
       THEN ScheduleRender([RecycleElement(s, target)
                               EXCEPT !.visibleItems = MapDelete(@, path)])
       ELSE s

\* setupObservers(): the ResizeObserver observes the container, and anonymous
\* listeners are added for scroll on the container and for visibilitychange on
\* the document.  (The IntersectionObserver observes the elements: observed.)
SetupObservers(s) ==
    [s EXCEPT !.listening = {"resize", "scroll", "visibilitychange"}]

\* updateRects(), the container now measuring width x height
UpdateRects(s, width, height) ==
    ScheduleRender([s EXCEPT !.viewportRect = [width |-> width, height |-> height]])

\* handleScroll()
HandleScroll(s) == ScheduleRender(s)

\* pauseRendering() / resumeRendering()
PauseRendering(s) == [s EXCEPT !.enabled = FALSE]
\* A resumeRendering() that only sets the flag
ResumeWithoutRender(s) == [s EXCEPT !.enabled = TRUE]
ResumeRendering(s) == ScheduleRender([s EXCEPT !.enabled = TRUE])

(***************************************************************************)
(* Public mutation API                                                     *)
(***************************************************************************)
\* items.forEach(item => this.itemData.set(item.path, item))
RECURSIVE DataSetAll(_, _)
DataSetAll(data, items) ==
    IF items = <<>> THEN data
    ELSE DataSetAll(DataSet(data, Head(items)), Tail(items))

\* setItems(items, scale); scale 0 stands for an omitted (falsy) argument
SetItems(s, items, scale) ==
    LET d == DataSetAll(<<>>, items)
    IN ScheduleRender(
         [s EXCEPT !.transform.scale = IF scale # 0 THEN scale ELSE @,
                   !.itemData = d,
                   !.spatialIndex = BuildSpatialIndex(d)])

\* An addItem that leaves the rendering to the next pass
RenderDeferred(a, item) == a

\* addItem(item) after the store and the index took the item: "Render if in
\* view".  While this.viewportRect is null getVisibleContentRect throws.
RenderIfInView(a, item) ==
    IF a.viewportRect = NoRect THEN [a EXCEPT !.threw = TRUE]
    ELSE IF IsItemVisible(a, item, GetVisibleContentRect(a)) THEN RenderItem(a, item)
    ELSE a

\* addItem(item)
AddItem(s, item) ==
    RenderIfInView([s EXCEPT !.itemData = DataSet(@, item),
                             !.spatialIndex = UpdateItemInSpatialIndex(@, item)],
                   item)

\* removeItem(itemPath) after the store and the index dropped the path:
\* "Remove visible element if present"
RemoveVisibleElement(r, itemPath) ==
    IF itemPath \in DOMAIN r.visibleItems
    THEN [RecycleElement(r, r.visibleItems[itemPath])
             EXCEPT !.visibleItems = MapDelete(@, itemPath)]
    ELSE r

\* removeItem(itemPath)
RemoveItem(s, itemPath) ==
    RemoveVisibleElement([s EXCEPT !.itemData = DataDelete(@, itemPath),
                                   !.spatialIndex = RemoveFromSpatialIndex(@, itemPath)],
                         itemPath)

\* A setTransform that replaces the transform, an omitted field taking the
\* value the constructor gives it
SetTransformWhole(s, t) ==
    LET n == [scale |-> IF "scale" \in DOMAIN t THEN t.scale ELSE ScaleDen,
              translateX |-> IF "translateX" \in DOMAIN t THEN t.translateX ELSE 0,
              translateY |-> IF "translateY" \in DOMAIN t THEN t.translateY ELSE 0]
    IN ScheduleRender(ApplyTransform([s EXCEPT !.transform = n]))

\* setTransform(transform): t holds the fields that are not undefined
SetTransform(s, t) ==
    LET n == [scale |-> IF "scale" \in DOMAIN t THEN t.scale ELSE s.transform.scale,
              translateX |-> IF "translateX" \in DOMAIN t THEN t.translateX
                                                          ELSE s.transform.translateX,
              translateY |-> IF "translateY" \in DOMAIN t THEN t.translateY
                                                          ELSE s.transform.translateY]
    IN ScheduleRender(ApplyTransform([s EXCEPT !.transform = n]))

\* A focusOnItem that centres the item as if the scale were 1
FocusOnItemUnscaled(s, itemPath, scale) ==
    LET item == DataGet(s.itemData, itemPath)
    IN IF item = NoItem THEN s
       ELSE SetTransform(s,
                [scale |-> IF scale # 0 THEN scale ELSE s.transform.scale,
                 translateX |-> (s.viewportRect.width \div 2)
                                  - (item.position.x + (ItemWidth \div 2)),
                 translateY |-> (s.viewportRect.height \div 2)
                                  - (item.position.y + (ItemHeight \div 2))])

\* focusOnItem(itemPath, scale); scale 0 stands for an omitted argument.  Without
\* the item it warns and returns; while this.containerRect is null reading its
\* width throws.  The translation that centres the item is a whole number of
\* pixels for the items and scales of the model.  highlightItem only toggles a
\* class of the elements.
FocusOnItem(s, itemPath, scale) ==
    LET item == DataGet(s.itemData, itemPath)
        newScale == IF scale # 0 THEN scale ELSE s.transform.scale
        itemCenterX == item.position.x + (ItemWidth \div 2)
        itemCenterY == item.position.y + (ItemHeight \div 2)
    IN IF item = NoItem THEN s
       ELSE IF s.viewportRect = NoRect THEN [s EXCEPT !.threw = TRUE]
       ELSE SetTransform(s,
                [scale |-> newScale,
                 translateX |-> (s.viewportRect.width \div 2)
                                  - ((itemCenterX * newScale) \div ScaleDen),
                 translateY |-> (s.viewportRect.height \div 2)
                                  - ((itemCenterY * newScale) \div ScaleDen)])

\* dispose().  Without a container this.observer is undefined and
\* this.container.removeEventListener throws.  Otherwise the two observers are
\* disconnected (removeEventListener is given this.handleScroll and
\* this.updateRects, which are not the functions that were added, and removes
\* nothing), each element of visibleItems is taken out of the document as it
\* is (shown, bound to its path, with its listeners; nothing refers to it
\* afterwards), and the four maps are cleared.
Dispose(s) ==
    IF ~s.container THEN [s EXCEPT !.threw = TRUE]
    ELSE [s EXCEPT
            !.handles =
                [h \in 1..Len(s.handles) |->
                    IF \E p \in DOMAIN s.visibleItems : s.visibleItems[p] = h
                    THEN [s.handles[h] EXCEPT !.observed = FALSE, !.parent = FALSE,
                                              !.collected = TRUE]
                    ELSE [s.handles[h] EXCEPT !.observed = FALSE]],
            !.listening = @ \ {"resize"},
            !.visibleItems = EmptyMap,
            !.itemData = <<>>,
            !.spatialIndex = EmptyIndex]

(***************************************************************************)
(* Construction                                                            *)
(***************************************************************************)
\* The fields the constructor sets before it calls initialize(), in a document
\* that has the container; the pools are undefined until setupObjectPools()
Fields(maxSize, faults) ==
    [itemData |-> <<>>,
     spatialIndex |-> EmptyIndex,
     visibleItems |-> EmptyMap,
     handles |-> <<>>,
     directoryPool |-> <<>>,
     filePool |-> <<>>,
     poolSettings |-> [initialSize |-> InitialSize, maxSize |-> maxSize,
                       growthRate |-> GrowthRate],
     transform |-> [scale |-> ScaleDen, translateX |-> 0, translateY |-> 0],
     appliedTransform |-> [scale |-> ScaleDen, translateX |-> 0, translateY |-> 0],
     viewportRect |-> NoRect,
     isRendering |-> FALSE,
     renderScheduled |-> FALSE,
     enabled |-> TRUE,
     container |-> TRUE,
     initialized |-> FALSE,
     poolFaults |-> {},
     listening |-> {},
     rafCallbacks |-> 0,
     tasks |-> <<>>,
     faulty |-> faults,
     threw |-> FALSE]

\* initialize(), the container measuring width x height
Initialize(s, width, height) ==
    IF s.initialized THEN s
    ELSE [SetupObjectPools(SetupObservers(UpdateRects(s, width, height)))
             EXCEPT !.initialized = TRUE]

\* The end of the constructor: without a container it logs an error and returns
Constructor(s, width, height) ==
    IF s.container THEN Initialize(s, width, height) ELSE s

(***************************************************************************)
(* Inputs                                                                  *)
(***************************************************************************)
Paths == {"a", "b"}
\* Near is inside the margin-expanded view only while the content is not
\* panned; Far is inside it with and without the pan of TranslateXs
Near == [x |-> 10, y |-> 10]
Far == [x |-> 620, y |-> 10]
Items ==
    {[path |-> "a", name |-> "n", type |-> "directory", position |-> Near],
     [path |-> "b", name |-> "n", type |-> "directory", position |-> Far]}
\* Arrays of items with pairwise different paths
AllItemLists ==
    {<<>>} \cup {<<i>> : i \in Items}
           \cup {l \in {<<i, j>> : i \in Items, j \in Items} : l[1].path # l[2].path}
Scales == {20}
TranslateXs == {0, -1000}
TranslateYs == {0}
\* Arguments of setTransform: all three fields, or translateX alone
TransformArgs ==
    {[f \in {"scale", "translateX", "translateY"} |->
         IF f = "scale" THEN tr[1] ELSE IF f = "translateX" THEN tr[2] ELSE tr[3]] :
       tr \in Scales \X TranslateXs \X TranslateYs}
    \cup {[f \in {"translateX"} |-> x] : x \in TranslateXs}
\* Arguments of setTransform with every subset of the three fields
TransformFields == {"scale", "translateX", "translateY"}
PatchValues(f) ==
    IF f = "scale" THEN {10, 20} ELSE IF f = "translateX" THEN {0, -1000}
                                 ELSE {0, -50}
PatchArgs ==
    {t \in UNION {[fs -> {0, 10, 20, -50, -1000}] : fs \in SUBSET TransformFields} :
        \A f \in DOMAIN t : t[f] \in PatchValues(f)}
ContainerSizes == {[width |-> 800, height |-> 600]}
InitialContainer == [width |-> 800, height |-> 600]
\* options.recycleThreshold values the host may configure
PoolMaxSizes == {2, 11}
PoolTypes == {"directory", "file"}
\* The pool the operations of the pool interface are called on, the two pools
\* being instances of one createObjectPool
ExercisedPools == {"directory"}
PrewarmSizes == {3, 12}
\* Paths whose content update throws
FaultSets == {{"a"}}
\* The callbacks of a pool that throw: createFunc, or resetFunc
PoolFaultSets == {{"create"}, {"reset"}}
\* What can be wrong around an engine: the document has no container, the
\* element factories throw, or the content update of item "a" throws
HostEnvironments ==
    {[container |-> FALSE, poolFaults |-> {}, faulty |-> {}],
     [container |-> TRUE, poolFaults |-> {"create"}, faulty |-> {}],
     [container |-> TRUE, poolFaults |-> {}, faulty |-> {"a"}]}
\* Items around the right edge 1100 of the margin-expanded view of an 800 wide
\* container at scale 1, for the comparison of the two visibility tests
QueryXs == {10, 480, 1099, 1101, 1600}
QueryItems ==
    {[path |-> p, name |-> "n", type |-> "directory",
      position |-> [x |-> x, y |-> 10]] : p \in Paths, x \in QueryXs}
QueryItemLists ==
    {<<>>} \cup {<<i>> : i \in QueryItems}
           \cup {l \in {<<i, j>> : i \in QueryItems, j \in QueryItems} :
                     l[1].path # l[2].path}
QueryScales == {10, 20}
\* Three items inside the view, for passes of more than one batch
BatchItems ==
    {[path |-> "a", name |-> "n", type |-> "directory", position |-> Near],
     [path |-> "b", name |-> "n", type |-> "directory", position |-> Far],
     [path |-> "c", name |-> "n", type |-> "directory",
      position |-> [x |-> 300, y |-> 300]]}
\* Arrays of one to three of them with pairwise different paths
BatchItemLists ==
    {l \in UNION {[1..n -> BatchItems] : n \in 1..3} :
        \A i, j \in 1..Len(l) : l[i] = l[j] => i = j}
\* The two items in view under either of two names, as a host that renames
\* an entry passes them
RenamedItems ==
    {[path |-> p, name |-> n, type |-> "directory",
      position |-> IF p = "a" THEN Near ELSE Far] : p \in Paths, n \in {"n", "m"}}
\* Scales on, between and below the thresholds: 0.05, 0.2, 0.5, 0.6, 1.0
LodScales == {1, 4, 10, 12, 20}
\* Items for the spatial index: "a" inside the first cell or across the line
\* x = 500 between two cells, "b" far to the right, out of view
GridXs == {10, 480, 1600}
GridItems ==
    {[path |-> IF x = 1600 THEN "b" ELSE "a", name |-> "n", type |-> "directory",
      position |-> [x |-> x, y |-> 10]] : x \in GridXs}
GridItemLists ==
    {<<>>} \cup {<<i>> : i \in GridItems}
           \cup {l \in {<<i, j>> : i \in GridItems, j \in GridItems} :
                     l[1].path # l[2].path}

(***************************************************************************)
(* State, and the actions                                                  *)
(***************************************************************************)
St ==
    [itemData |-> itemData, spatialIndex |-> spatialIndex,
     visibleItems |-> visibleItems, handles |-> handles,
     directoryPool |-> directoryPool, filePool |-> filePool,
     poolSettings |-> poolSettings, transform |-> transform,
     appliedTransform |-> appliedTransform, viewportRect |-> viewportRect,
     isRendering |-> isRendering, renderScheduled |-> renderScheduled,
     enabled |-> enabled, container |-> container, initialized |-> initialized,
     poolFaults |-> poolFaults, listening |-> listening,
     rafCallbacks |-> rafCallbacks, tasks |-> tasks,
     faulty |-> faulty, threw |-> FALSE]

\* Elements in use that are neither idle in a pool nor in visibleItems
Stray(s) ==
    {h \in 1..Len(s.handles) :
        /\ ~s.handles[h].collected
        /\ h \notin Range(s.directoryPool)
        /\ h \notin Range(s.filePool)
        /\ \A p \in DOMAIN s.visibleItems : s.visibleItems[p] # h}

Bounded(s) ==
    /\ Len(s.handles) <= MaxHandles
    /\ Len(s.tasks) <= MaxTasks
    /\ Cardinality(Stray(s)) <= MaxStray

Become(s, event) ==
    /\ itemData' = s.itemData
    /\ spatialIndex' = s.spatialIndex
    /\ visibleItems' = s.visibleItems
    /\ handles' = s.handles
    /\ directoryPool' = s.directoryPool
    /\ filePool' = s.filePool
    /\ poolSettings' = s.poolSettings
    /\ transform' = s.transform
    /\ appliedTransform' = s.appliedTransform
    /\ viewportRect' = s.viewportRect
    /\ isRendering' = s.isRendering
    /\ renderScheduled' = s.renderScheduled
    /\ enabled' = s.enabled
    /\ container' = s.container
    /\ initialized' = s.initialized
    /\ poolFaults' = s.poolFaults
    /\ listening' = s.listening
    /\ rafCallbacks' = s.rafCallbacks
    /\ tasks' = s.tasks
    /\ faulty' = s.faulty
    /\ dispatched' = event

NoEvent == [item |-> NoItem, element |-> NoHandle]

\* A call or callback that leaves the engine in state s
Step(s) == Bounded(s) /\ Become([s EXCEPT !.threw = FALSE], NoEvent)

Constructed(s) ==
    /\ itemData = s.itemData
    /\ spatialIndex = s.spatialIndex
    /\ visibleItems = s.visibleItems
    /\ handles = s.handles
    /\ directoryPool = s.directoryPool
    /\ filePool = s.filePool
    /\ poolSettings = s.poolSettings
    /\ transform = s.transform
    /\ appliedTransform = s.appliedTransform
    /\ viewportRect = s.viewportRect
    /\ isRendering = s.isRendering
    /\ renderScheduled = s.renderScheduled
    /\ enabled = s.enabled
    /\ container = s.container
    /\ initialized = s.initialized
    /\ poolFaults = s.poolFaults
    /\ listening = s.listening
    /\ rafCallbacks = s.rafCallbacks
    /\ tasks = s.tasks
    /\ faulty = s.faulty
    /\ dispatched = NoEvent

\* new VirtualizedRenderer(options) with the container present
InitWith(maxSize, faults) ==
    Constructed(Constructor(Fields(maxSize, faults), InitialContainer.width,
                            InitialContainer.height))

Init == InitWith(RecycleThreshold, {})

\* Calls of the host
CallSetItems ==
    \E items \in AllItemLists, scale \in Scales :
        Step(SetItems(St, items, scale))

CallAddItem ==
    \E item \in Items :
        Step(AddItem(St, item))

CallRemoveItem ==
    \E path \in Paths :
        Step(RemoveItem(St, path))

CallSetTransform ==
    \E t \in TransformArgs :
        Step(SetTransform(St, t))

\* Callbacks of the browser
AnimationFrame ==
    /\ rafCallbacks > 0
    /\ Step(RafCallback(St))

Timeout ==
    /\ tasks # <<>>
    /\ Step(TimerCallback(St))

IntersectionEntry ==
    \E target \in 1..Len(handles) :
        /\ handles[target].observed
        /\ Step(HandleIntersection(St, target, IsIntersecting(St, target)))

ResizeEntry ==
    /\ "resize" \in listening
    /\ \E size \in ContainerSizes :
          Step(UpdateRects(St, size.width, size.height))

ScrollEvent ==
    /\ "scroll" \in listening
    /\ Step(HandleScroll(St))

VisibilityChange ==
    /\ "visibilitychange" \in listening
    /\ \E visible \in BOOLEAN :
          Step(IF visible THEN ResumeRendering(St) ELSE PauseRendering(St))

\* A click, double click or context-menu event on an element of the document:
\* each listener dispatches a CustomEvent whose detail carries the item and the
\* element of its closure
UserEvent ==
    \E element \in 1..Len(handles) :
        /\ handles[element].parent
        /\ handles[element].display
        /\ handles[element].listeners # NoItem
        /\ Become(St, [item |-> handles[element].listeners, element |-> element])

Next ==
    \/ CallSetItems
    \/ CallAddItem
    \/ CallRemoveItem
    \/ CallSetTransform
    \/ AnimationFrame
    \/ Timeout
    \/ IntersectionEntry
    \/ ResizeEntry
    \/ ScrollEvent

Spec == Init /\ [][Next]_vars

\* The engine in a document whose visibility changes, the host replacing the
\* items and moving the view
PauseNext ==
    \/ CallSetItems
    \/ CallSetTransform
    \/ ResizeEntry
    \/ AnimationFrame
    \/ Timeout
    \/ VisibilityChange
PauseSpec == Init /\ [][PauseNext]_vars

\* requestAnimationFrame: the browser runs a callback that is registered
TickDelivered == rafCallbacks > 0 /\ rafCallbacks' = rafCallbacks - 1

\* The same under a browser that keeps delivering animation frames
PauseLiveSpec == PauseSpec /\ WF_rafCallbacks(TickDelivered)

\* setTimeout: the browser runs the continuation that is due, which leaves the
\* queue and queues the batch after it when items are left
TimerDelivered ==
    /\ tasks # <<>>
    /\ tasks' \in {Tail(tasks),
                   Append(Tail(tasks),
                          [items |-> Head(tasks).items,
                           processedCount |-> Head(tasks).processedCount + BatchSize])}

\* The same under a browser that also keeps running the timers that are due
EventualSpec == PauseLiveSpec /\ WF_tasks(TimerDelivered)

\* new VirtualizedRenderer(options) where something is wrong
HostInit ==
    \E e \in HostEnvironments :
        Constructed(Constructor([Fields(RecycleThreshold, e.faulty)
                                    EXCEPT !.container = e.container,
                                           !.poolFaults = e.poolFaults],
                                InitialContainer.width, InitialContainer.height))

CallFocusOnItem ==
    \E path \in Paths, scale \in {0} \cup Scales :
        Step(FocusOnItem(St, path, scale))

\* The calls of the host and the callbacks they leave behind
HostNext ==
    \/ CallSetItems
    \/ CallAddItem
    \/ CallRemoveItem
    \/ CallSetTransform
    \/ CallFocusOnItem
    \/ AnimationFrame
    \/ Timeout
HostSpec == HostInit /\ [][HostNext]_vars

CallDispose ==
    Step(Dispose(St))

\* dispose() has run: only it disconnects the ResizeObserver
Disposed == initialized /\ "resize" \notin listening

\* setItems of a host that makes no call but dispose() on a disposed engine
HostSetItems == ~Disposed /\ CallSetItems

\* The engine of a host that fills it and disposes of it, and the callbacks
\* of the browser
DisposeNext ==
    \/ HostSetItems
    \/ AnimationFrame
    \/ Timeout
    \/ IntersectionEntry
    \/ ResizeEntry
    \/ ScrollEvent
    \/ VisibilityChange
    \/ CallDispose
DisposeSpec == Init /\ [][DisposeNext]_vars

\* The engine with items whose content update throws
FaultInit == \E faults \in FaultSets : InitWith(RecycleThreshold, faults)
FaultSpec == FaultInit /\ [][Next]_vars

\* A pool of an engine under the operations of the pool interface, for the
\* values of options.recycleThreshold in PoolMaxSizes
PoolGetOp ==
    \E type \in ExercisedPools : Step(PoolGet(St, type).s)

PoolReleaseOp ==
    \E obj \in Stray(St) : Step(PoolRelease(St, handles[obj].type, obj))

PoolPrewarmOp ==
    \E type \in ExercisedPools, size \in PrewarmSizes :
        Step(PoolPrewarm(St, type, size))

PoolClearOp ==
    \E type \in ExercisedPools : Step(PoolClear(St, type))

PoolInit == \E maxSize \in PoolMaxSizes : InitWith(maxSize, {})
PoolNext == PoolGetOp \/ PoolReleaseOp \/ PoolPrewarmOp \/ PoolClearOp
PoolSpec == PoolInit /\ [][PoolNext]_vars

\* The two pools with a createFunc or a resetFunc that throws
PoolFaultInit ==
    \E maxSize \in PoolMaxSizes, faults \in PoolFaultSets :
        Constructed(Constructor([Fields(maxSize, {}) EXCEPT !.poolFaults = faults],
                                InitialContainer.width, InitialContainer.height))
PoolFaultSpec == PoolFaultInit /\ [][PoolNext]_vars

\* The item store and the transform under setItems and setTransform alone, for
\* the two visibility tests of getItemsInViewport
QuerySetItems ==
    \E items \in QueryItemLists, scale \in {0} \cup QueryScales :
        Step(SetItems(St, items, scale))

QuerySetTransform ==
    \E scale \in QueryScales : Step(SetTransform(St, [s \in {"scale"} |-> scale]))

QueryNext == QuerySetItems \/ QuerySetTransform
QuerySpec == Init /\ [][QueryNext]_vars


\* The item store and the spatial index under setItems, addItem and removeItem
\* with items at the positions of QueryXs, a path being added again elsewhere
IndexSetItems ==
    \E items \in GridItemLists : Step(SetItems(St, items, 0))

IndexAddItem ==
    \E item \in GridItems : Step(AddItem(St, item))

IndexRemoveItem ==
    \E path \in Paths : Step(RemoveItem(St, path))

IndexSpec == Init /\ [][IndexSetItems \/ IndexAddItem \/ IndexRemoveItem]_vars

\* The detail level under setItems and zooming and panning by setTransform
LodSetTransform ==
    \E scale \in LodScales, x \in TranslateXs, y \in PatchValues("translateY") :
        Step(SetTransform(St, [scale |-> scale, translateX |-> x, translateY |-> y]))

LodSpec == Init /\ [][IndexSetItems \/ LodSetTransform]_vars

\* The two visibility tests with one item whose box touches or misses by one
\* an edge of the margin-expanded view (left -300 and right 1100 at scale 1,
\* left -500 at scale 0.6, left -600 and right 2200 at scale 0.5) or a line
\* between two cells
EdgeXs == {-701, -700, -601, -600, -400, 400, 500, 1100, 1101, 2200, 2201}
EdgeSetItems ==
    \E x \in EdgeXs, scale \in {0, 12} :
        Step(SetItems(St, <<[path |-> "a", name |-> "n", type |-> "directory",
                             position |-> [x |-> x, y |-> 10]]>>, scale))
EdgeSpec == Init /\ [][EdgeSetItems \/ LodSetTransform]_vars

\* Passes over up to three items, processed in batches
BatchSetItems ==
    \E items \in BatchItemLists : Step(SetItems(St, items, 0))

BatchSpec == Init /\ [][BatchSetItems \/ AnimationFrame \/ Timeout]_vars

\* Passes over items that the host sets again under another name
RenameSetItems ==
    \E i \in RenamedItems, j \in RenamedItems :
        Step(SetItems(St, IF i.path = j.path THEN <<i>> ELSE <<i, j>>, 0))

RenameSpec == Init /\ [][RenameSetItems \/ AnimationFrame \/ Timeout]_vars

\* The engine of a host that sets items and focuses on them, also zooming
FocusCall ==
    \E path \in Paths, scale \in {0} \cup QueryScales :
        Step(FocusOnItem(St, path, scale))

FocusSpec == Init /\ [][CallSetItems \/ FocusCall \/ AnimationFrame \/ Timeout]_vars

\* The same with a host that also disposes of the engine, once, at any point
BookDispose == ~Disposed /\ CallDispose
BookSpec ==
    Init /\ [][IndexSetItems \/ IndexAddItem \/ IndexRemoveItem \/ BookDispose]_vars

\* The engine under a view that is neither panned nor resized, with the user
\* acting on the elements of the document
EventNext ==
    \/ CallSetItems
    \/ CallAddItem
    \/ CallRemoveItem
    \/ AnimationFrame
    \/ Timeout
    \/ IntersectionEntry
    \/ UserEvent
EventSpec == Init /\ [][EventNext]_vars

(***************************************************************************)
(* Contract invariants                                                     *)
(***************************************************************************)
\* Elements shown in the viewport: attached to it and not hidden
ActiveHandles == {h \in 1..Len(handles) : handles[h].parent /\ handles[h].display}

\* visibleItems and the shown elements are in one-to-one correspondence
Bijection ==
    /\ \A p \in DOMAIN visibleItems :
          /\ visibleItems[p] \in ActiveHandles
          /\ handles[visibleItems[p]].path = p
    /\ \A h \in ActiveHandles : \E p \in DOMAIN visibleItems : visibleItems[p] = h
    /\ \A h1, h2 \in ActiveHandles :
          handles[h1].path = handles[h2].path => h1 = h2
    /\ Cardinality(DOMAIN visibleItems) = Cardinality(ActiveHandles)

\* A step that ends a pass: the tick's batch or a deferred batch was the last one
PassCompletes == (AnimationFrame \/ Timeout) /\ tasks' = <<>>

\* C1 -- Bijection: at the end of every completed render pass every path of
\* visibleItems has exactly one shown element and every shown element is bound
\* to exactly one path of visibleItems, also after addItem for a path that is
\* already in visibleItems.
C1_Bijection == [][PassCompletes => Bijection']_vars

\* C2 -- Recycle bound: after any sequence of pool operations (construction,
\* get, release, prewarm, clear) the idle list of each pool is no longer than
\* the configured maxSize, also for a recycleThreshold below the initial size.
C2_RecycleBound ==
    /\ Len(directoryPool) <= poolSettings.maxSize
    /\ Len(filePool) <= poolSettings.maxSize

\* C3 -- Single-flight: however many times scheduleRender() is called while the
\* engine is enabled, one animation-frame callback is registered; the calls
\* after the first change nothing; the next tick runs one pass and leaves no
\* callback behind.
C3_SingleFlight ==
    /\ [](/\ rafCallbacks <= 1
          /\ renderScheduled <=> rafCallbacks = 1
          /\ enabled =>
                /\ ScheduleRender(St).rafCallbacks = 1
                /\ ScheduleRender(ScheduleRender(St)) = ScheduleRender(St))
    /\ [][rafCallbacks' < rafCallbacks =>
             /\ rafCallbacks' = 0 /\ ~renderScheduled'
             /\ appliedTransform' = transform]_vars

\* Two scheduling calls (initialize, then setItems of two items) without a tick
\* in between: no element has been rendered yet and one callback is pending
C3_Witness ==
    /\ renderScheduled /\ rafCallbacks = 1
    /\ Len(itemData) = 2
    /\ \A h \in 1..Len(handles) : handles[h].listeners = NoItem

\* A tick on which render() passes its guard and starts a pass
PassStarts == AnimationFrame /\ enabled /\ ~isRendering
\* A pass is in flight while render() runs or one of its batches is still queued
PassInFlight == isRendering \/ tasks # <<>>

\* C4 -- Non-reentrancy: a pass is in flight until the last batch that
\* processIncrementally deferred has run, and no second pass starts meanwhile.
C4_NonReentrancy == [][PassStarts => ~PassInFlight]_vars

PathsOf(items) == {items[i].path : i \in 1..Len(items)}

\* C5 -- Exit on diff: when a pass completes, every path of visibleItems that
\* is absent from the query result of the pass has been exited, so visibleItems
\* holds only paths of the query result.
C5_ExitOnDiff ==
    [][/\ AnimationFrame /\ tasks' = <<>> =>
            DOMAIN visibleItems' \subseteq PathsOf(GetItemsInViewport(St))
       /\ Timeout /\ tasks' = <<>> =>
            DOMAIN visibleItems' \subseteq PathsOf(Head(tasks).items)]_vars

\* C6 -- Index/linear-scan equivalence: for the item store and the visible
\* rectangle of every state, queryVisibleItemsFromSpatialIndex returns the
\* paths of exactly the items that isItemVisible accepts (an item at x=1099 is
\* returned and an item at x=1101 is not when the right edge is 1100).
C6_IndexEquivalence ==
    PathsOf(QueryVisibleItemsFromSpatialIndex(St, GetVisibleContentRect(St)))
        = PathsOf(LinearScan(St, GetVisibleContentRect(St)))

\* addItem(x) followed by removeItem(x.path)
RoundTrip(x) == RemoveItem(AddItem(St, x), x.path)

\* C7 -- Round trip: from any reachable state addItem(x) followed by
\* removeItem(x.path) restores itemData, spatialIndex and visibleItems.
C7_RoundTrip ==
    \A x \in Items :
        /\ RoundTrip(x).itemData = itemData
        /\ RoundTrip(x).spatialIndex = spatialIndex
        /\ RoundTrip(x).visibleItems = visibleItems

\* C7 as amended -- from any reachable state whose itemData does not hold
\* x.path, the round trip restores itemData and spatialIndex and leaves
\* visibleItems as it was without the entry of x.path (so unchanged when x.path
\* had no element).
C7_RoundTripOfNewPath ==
    \A x \in Items :
        x.path \notin DataPaths(itemData) =>
            /\ RoundTrip(x).itemData = itemData
            /\ RoundTrip(x).spatialIndex = spatialIndex
            /\ RoundTrip(x).visibleItems = MapDelete(visibleItems, x.path)

\* An item that is new to a store holding another item is in view, so that
\* addItem renders it and removeItem recycles its element
C7_Witness ==
    \E x \in Items :
        /\ x.path \notin DataPaths(itemData)
        /\ x.path \notin DOMAIN visibleItems
        /\ itemData # <<>>
        /\ x.path \in DOMAIN AddItem(St, x).visibleItems
        /\ AddItem(St, x).spatialIndex # spatialIndex

Idle == <<directoryPool, filePool>>

C9_NoStaleCallbacks ==
    dispatched.element # NoHandle =>
        dispatched.item.path = handles[dispatched.element].path

\* Whether a batch still queued will process the item
Queued(q, item) ==
    \E k \in 1..Len(q) :
        \E i \in (q[k].processedCount + 1)..Len(q[k].items) : q[k].items[i] = item

\* C10 -- Per-item failure isolation: when the content update throws for one
\* item of a pass, every other item of the query result is still processed, in
\* the same batch or in a batch that stays queued.
C10_FailureIsolation ==
    [][PassStarts =>
          \A item \in Range(GetItemsInViewport(St)) :
              item.path \notin faulty =>
                  \/ item.path \in DOMAIN visibleItems'
                  \/ Queued(tasks', item)]_vars

\* The engine while the tick callback runs the pass: the callback has left the
\* queue of the browser and render() is past its guard
InPass(s) == ApplyTransform([s EXCEPT !.rafCallbacks = @ - 1, !.isRendering = TRUE])

\* C11 -- Re-schedule from inside a pass: a scheduleRender() call made while the
\* tick callback runs the pass registers a new animation-frame callback, so a
\* further pass runs on a later tick and the call is not lost when the callback
\* clears renderScheduled.
C11_RescheduleInPass ==
    (rafCallbacks > 0 /\ enabled) =>
        ScheduleRender(InPass(St)).rafCallbacks = InPass(St).rafCallbacks + 1

\* A step of pass work: a tick, or a batch that a pass deferred
PassWork == rafCallbacks' < rafCallbacks \/ tasks' # tasks

\* C12 -- Paused means no pass work: between pauseRendering() and the next
\* resumeRendering() no tick and no deferred batch of an earlier pass enters,
\* exits or updates an element.
C12_PausedNoPassWork ==
    [][~enabled /\ ~enabled' /\ PassWork =>
            UNCHANGED <<visibleItems, handles, directoryPool, filePool>>]_vars

\* The items of the first batch of a pass over the query result
FirstBatch(items) == SubSeq(items, 1, Min(BatchSize, Len(items)))

\* C13 -- Resume does not lose changes: whatever happened while the engine was
\* paused (setItems, setTransform, a resize, a tick that found it paused),
\* resumeRendering() leaves it enabled with one animation-frame callback
\* pending; under fair delivery that callback runs unless the engine is paused
\* again first; and the pass it runs writes the transform and enters the first
\* batch of the query over the item store as they are when it runs.
C13_ResumeCatchesUp ==
    /\ [](/\ ResumeRendering(St).enabled
          /\ ResumeRendering(St).renderScheduled
          /\ ResumeRendering(St).rafCallbacks = 1)
    /\ (enabled /\ rafCallbacks = 1) ~> (~enabled \/ rafCallbacks = 0)
    /\ [][enabled /\ rafCallbacks' < rafCallbacks =>
             /\ appliedTransform' = transform
             /\ PathsOf(FirstBatch(GetItemsInViewport(St)))
                    \subseteq DOMAIN visibleItems']_vars

\* Two items were set while the engine was paused and no tick is pending: no
\* element has been entered, and resumeRendering() registers the tick whose pass
\* enters the first of them
C13_Witness ==
    /\ ~enabled /\ rafCallbacks = 0 /\ ~renderScheduled
    /\ Len(itemData) = 2
    /\ DOMAIN visibleItems = {}
    /\ ResumeRendering(St).rafCallbacks = 1
    /\ DOMAIN RafCallback(ResumeRendering(St)).visibleItems # {}

\* C14 -- Construction failure is fatal and atomic: the constructor throws when
\* the container is missing, so every engine the caller holds has its container
\* and is initialized, with its viewport rectangle set up.
C14_ConstructionFatal == container /\ initialized /\ viewportRect # NoRect

\* C15 -- No error reaches the host: in every reachable state of the engine,
\* also of one constructed without its container or with an element factory
\* that throws, setItems, addItem, removeItem, setTransform, focusOnItem, the
\* animation-frame callback and get() of the pools return without an exception.
C15_NoErrorReachesHost ==
    /\ \A items \in AllItemLists, scale \in Scales : ~SetItems(St, items, scale).threw
    /\ \A item \in Items : ~AddItem(St, item).threw
    /\ \A path \in Paths : ~RemoveItem(St, path).threw
    /\ \A t \in TransformArgs : ~SetTransform(St, t).threw
    /\ \A path \in Paths : ~FocusOnItem(St, path, 0).threw
    /\ rafCallbacks > 0 => ~RafCallback(St).threw
    /\ initialized => \A type \in PoolTypes : ~PoolGet(St, type).s.threw

\* C16 -- Pool failure semantics: a createFunc that throws during get() and a
\* resetFunc that throws during release() are caught inside the pool: get()
\* returns without an exception and leaves only elements in the idle list, and
\* a release() whose reset throws returns without an exception, does not push
\* the element and leaves the idle list as it was.
C16_PoolFailureSemantics ==
    /\ \A type \in PoolTypes :
          /\ ~PoolGet(St, type).s.threw
          /\ Range(PoolOf(PoolGet(St, type).s, type))
                \subseteq 1..Len(PoolGet(St, type).s.handles)
    /\ \A obj \in Stray(St) :
          "reset" \in poolFaults =>
              /\ ~PoolRelease(St, handles[obj].type, obj).threw
              /\ PoolRelease(St, handles[obj].type, obj).directoryPool = directoryPool
              /\ PoolRelease(St, handles[obj].type, obj).filePool = filePool

\* release(obj) of an element in use, and what a later get() returns
Released(obj) == PoolRelease(St, handles[obj].type, obj)
NextGet(obj) == PoolGet(Released(obj), handles[obj].type)

\* C17 -- Discard at capacity: release(h) of an element in use leaves size()
\* as it is when the idle list already holds maxSize elements (or more), and h
\* is dropped: it is not in the idle list and no later get() returns it, get()
\* handing out only idle or new elements.  Below maxSize release(h) makes the
\* idle list one longer with h on top, so that the next get() returns h.  With
\* maxSize 2 and two idle elements a third release leaves the size at 2.
C17_DiscardAtCapacity ==
    /\ \A obj \in Stray(St) :
          IF Len(PoolOf(St, handles[obj].type)) >= poolSettings.maxSize
          THEN /\ PoolOf(Released(obj), handles[obj].type)
                     = PoolOf(St, handles[obj].type)
               /\ obj \notin Range(PoolOf(Released(obj), handles[obj].type))
               /\ Released(obj).handles[obj].collected
               /\ NextGet(obj).obj # obj
          ELSE /\ PoolOf(Released(obj), handles[obj].type)
                     = Append(PoolOf(St, handles[obj].type), obj)
               /\ NextGet(obj).obj = obj
               /\ PoolOf(NextGet(obj).s, handles[obj].type)
                     = PoolOf(St, handles[obj].type)
    /\ \A h \in Range(directoryPool) \cup Range(filePool) : ~handles[h].collected
    /\ \A type \in PoolTypes :
          ~PoolGet(St, type).s.handles[PoolGet(St, type).obj].collected

\* A pool of maxSize 2 holds two idle elements while a third element is in
\* use, and releasing that one leaves two
C17_Witness ==
    /\ poolSettings.maxSize = 2
    /\ Len(directoryPool) = 2
    /\ \E obj \in Stray(St) :
          /\ handles[obj].type = "directory"
          /\ Len(Released(obj).directoryPool) = 2
          /\ Released(obj).handles[obj].collected

\* C18 -- setTransform patches only the provided fields: for every subset of
\* scale, translateX and translateY in the argument, each provided field takes
\* the given value and each omitted field keeps its value, and the call leaves
\* itemData, spatialIndex and visibleItems as they are.
C18_SetTransformPatches ==
    \A t \in PatchArgs :
        LET r == SetTransform(St, t)
        IN /\ \A f \in TransformFields :
                 r.transform[f] = IF f \in DOMAIN t THEN t[f] ELSE transform[f]
           /\ r.itemData = itemData
           /\ r.spatialIndex = spatialIndex
           /\ r.visibleItems = visibleItems

\* setTransform({translateX: -1000}) has panned an engine that shows an element
\* of its two items and whose next pass is scheduled
C18_Witness ==
    /\ transform = [scale |-> ScaleDen, translateX |-> 0 - 1000, translateY |-> 0]
    /\ appliedTransform = transform
    /\ renderScheduled
    /\ Len(itemData) = 2
    /\ DOMAIN visibleItems # {}

\* A step that is a call of setTransform
SetTransformStep == \E t \in PatchArgs : Become(SetTransform(St, t), NoEvent)

\* C19 -- The transform is mutated only through setTransform: every step that
\* changes scale, translateX or translateY is a call of setTransform; setItems
\* and the other operations leave the three fields as they are.
C19_OnlySetTransform == [][transform' # transform => SetTransformStep]_vars

\* An element as release() leaves it: out of the viewport, hidden and unbound
IsReleased(el) == ~el.parent /\ ~el.display /\ el.path = NoPath

\* C20 -- dispose() is complete and idempotent: dispose() raises no error;
\* after it every element that was shown has been released, and itemData, the
\* bins and the reverse map of the spatial index, and visibleItems are empty;
\* a second dispose() raises no error and changes nothing.
C20_DisposeComplete ==
    /\ ~Dispose(St).threw
    /\ \A h \in ActiveHandles : IsReleased(Dispose(St).handles[h])
    /\ Dispose(St).itemData = <<>>
    /\ Dispose(St).spatialIndex = EmptyIndex
    /\ Dispose(St).visibleItems = EmptyMap
    /\ Dispose(Dispose(St)) = Dispose(St)

\* C21 -- dispose() detaches all observers: once dispose() has run, no resize,
\* scroll, intersection or visibility-change notification and no tick or batch
\* that was pending schedules or runs a pass or changes the state of the engine.
C21_DisposeDetaches ==
    [][Disposed =>
          UNCHANGED <<itemData, spatialIndex, visibleItems, handles, directoryPool,
                      filePool, transform, appliedTransform, viewportRect,
                      isRendering, renderScheduled, enabled, rafCallbacks, tasks>>]_vars

\* The cells of the grid around the items of the model
Cells == {<<bx, by>> : bx \in (0 - 1)..5, by \in (0 - 1)..2}

\* Whether the box of the item (position plus item size) overlaps the cell
Overlaps(item, k) ==
    /\ item.position.x < (k[1] + 1) * BinSize
    /\ item.position.x + ItemWidth > k[1] * BinSize
    /\ item.position.y < (k[2] + 1) * BinSize
    /\ item.position.y + ItemHeight > k[2] * BinSize

\* The keys of the bins that hold the path
BinsOf(index, path) == {k \in DOMAIN index.bins : path \in Range(index.bins[k])}

\* C22 -- Bin membership is exact: in every reachable state a path is in bin B
\* if and only if the box of its item in itemData overlaps cell B; an item at
\* (10,10) is in bin (0,0) only and an item at (480,10) in bins (0,0) and (1,0).
C22_BinMembership ==
    /\ \A i \in 1..Len(itemData) :
          BinsOf(spatialIndex, itemData[i].path)
              = {k \in Cells : Overlaps(itemData[i], k)}
    /\ \A k \in DOMAIN spatialIndex.bins :
          Range(spatialIndex.bins[k]) \subseteq DataPaths(itemData)

\* The keys from floor(left/binSize) to ceil(right/binSize) and from
\* floor(top/binSize) to ceil(bottom/binSize), both ends included
InsertKeys(item) ==
    {<<bx, by>> :
        bx \in Floor(item.position.x, BinSize)
                 ..Ceil(item.position.x + ItemWidth, BinSize),
        by \in Floor(item.position.y, BinSize)
                 ..Ceil(item.position.y + ItemHeight, BinSize)}

InsertedExactly(index, item) ==
    /\ BinsOf(index, item.path) = InsertKeys(item)
    /\ item.path \in DOMAIN index.items
    /\ Range(index.items[item.path]) = InsertKeys(item)
    /\ Len(index.items[item.path]) = Cardinality(InsertKeys(item))

\* C23 -- Insert covers the inclusive floor..ceil range: after the rebuild of
\* setItems and after addItem (also of a path that is stored at another
\* position) the path of each item is in every bin of the range, in no other
\* bin, and the reverse map records the keys of the range once each.
C23_InsertCoversRange ==
    /\ \A i \in 1..Len(itemData) : InsertedExactly(spatialIndex, itemData[i])
    /\ \A item \in GridItems :
          InsertedExactly(UpdateItemInSpatialIndex(spatialIndex, item), item)

\* addItem has inserted an item at x = 480, whose range has six keys, next to
\* another item, and has rendered an element
C23_Witness ==
    /\ Len(itemData) = 2
    /\ DOMAIN visibleItems # {}
    /\ \E i \in 1..Len(itemData) :
          /\ itemData[i].position.x = 480
          /\ Len(spatialIndex.items[itemData[i].path]) = 6

\* C24 -- No empty bins: after any sequence of setItems, addItem (also of a
\* stored path at a new position) and removeItem no bin of the spatial index
\* has an empty set of paths.
C24_NoEmptyBins ==
    \A k \in DOMAIN spatialIndex.bins : spatialIndex.bins[k] # <<>>

\* removeItem has released the element of an item and emptied its bins, while
\* the other item, far from it, keeps the bins of its own range only
C24_Witness ==
    /\ Len(itemData) = 1
    /\ itemData[1].position.x = 1600
    /\ DOMAIN spatialIndex.bins = InsertKeys(itemData[1])
    /\ \E h \in Range(directoryPool) : handles[h].listeners # NoItem

\* The thresholds the scale meets or exceeds
MetThresholds(scale) == {i \in 1..Len(LodThresholds) : scale >= LodThresholds[i]}

\* C25 -- LOD by zoom threshold: when the scale meets or exceeds an entry of
\* lodThresholds, getDetailLevel returns for every item, wherever it is, the
\* 1-based index of the first such entry; at scale 0.6 every item gets level 2.
C25_LodByZoom ==
    \A item \in GridItems :
        /\ MetThresholds(transform.scale) # {} =>
              /\ GetDetailLevel(St, item) \in MetThresholds(transform.scale)
              /\ \A j \in 1..(GetDetailLevel(St, item) - 1) :
                    transform.scale < LodThresholds[j]
        /\ transform.scale = 12 => GetDetailLevel(St, item) = 2

\* At scale 0.6 the store holds an item next to the center of the view and one
\* far from it, and both get level 2
C25_Witness ==
    /\ transform.scale = 12
    /\ Len(itemData) = 2
    /\ itemData[1].position.x = 10
    /\ itemData[2].position.x = 1600
    /\ GetDetailLevel(St, itemData[1]) = 2
    /\ GetDetailLevel(St, itemData[2]) = 2

\* C26 -- setItems is a full replace: after setItems(S) from any state itemData
\* holds exactly the items of S and the spatial index is the index built from
\* S alone, so an item of the previous set that is not in S is in neither; and
\* when the next pass has completed no path outside itemData has an element in
\* visibleItems.
C26_SetItemsReplaces ==
    /\ [](\A items \in AllItemLists :
            /\ SetItems(St, items, 0).itemData = items
            /\ SetItems(St, items, 0).spatialIndex = BuildSpatialIndex(items))
    /\ [][enabled /\ rafCallbacks' < rafCallbacks /\ tasks = <<>> /\ tasks' = <<>> =>
             DOMAIN visibleItems' \subseteq DataPaths(itemData)]_vars

\* The elements of visibleItems
VisibleHandles == {visibleItems[p] : p \in DOMAIN visibleItems}

\* Whether the sequence holds no value twice
NoRepeats(seq) == \A i, j \in 1..Len(seq) : seq[i] = seq[j] => i = j

\* C27 -- Handle ownership: whenever no pass is running, every element a
\* factory has created and no pool has dropped at capacity is either in the
\* idle list of one pool, once, or in visibleItems, and never in both and never
\* in neither (also after an item render that failed and after addItem of a
\* path that has an element).
C27_HandleOwnership ==
    (~isRendering /\ tasks = <<>>) =>
        /\ Stray(St) = {}
        /\ VisibleHandles \cap (Range(directoryPool) \cup Range(filePool)) = {}
        /\ Range(directoryPool) \cap Range(filePool) = {}
        /\ NoRepeats(directoryPool) /\ NoRepeats(filePool)

\* C28 -- Every mutation requests a pass: while the engine is enabled, each of
\* setItems, addItem, removeItem, setTransform and a resize of the container
\* returns with renderScheduled set and an animation-frame callback registered.
C28_MutationSchedules ==
    enabled =>
        /\ \A items \in AllItemLists, scale \in Scales :
              /\ SetItems(St, items, scale).renderScheduled
              /\ SetItems(St, items, scale).rafCallbacks > 0
        /\ \A t \in TransformArgs :
              /\ SetTransform(St, t).renderScheduled
              /\ SetTransform(St, t).rafCallbacks > 0
        /\ \A size \in ContainerSizes :
              /\ UpdateRects(St, size.width, size.height).renderScheduled
              /\ UpdateRects(St, size.width, size.height).rafCallbacks > 0
        /\ \A item \in Items :
              /\ AddItem(St, item).renderScheduled
              /\ AddItem(St, item).rafCallbacks > 0
        /\ \A path \in Paths :
              /\ RemoveItem(St, path).renderScheduled
              /\ RemoveItem(St, path).rafCallbacks > 0

\* C29 -- Coalescing folds changes into one pass: setItems and setTransform
\* calls made while a pass is scheduled register no further callback and do no
\* pass work themselves; the tick leaves no callback behind, and the pass it
\* runs writes the transform and takes its items from the query over itemData
\* as they are when the tick fires: it enters the first batch of them, enters
\* nothing else, and defers the rest of that list.
C29_Coalescing ==
    /\ []((enabled /\ renderScheduled /\ rafCallbacks = 1) =>
             \A items \in AllItemLists, t \in TransformArgs :
                 /\ SetItems(St, items, 0).rafCallbacks = 1
                 /\ SetTransform(St, t).rafCallbacks = 1
                 /\ SetTransform(SetItems(St, items, 0), t).rafCallbacks = 1
                 /\ SetTransform(SetItems(St, items, 0), t).visibleItems = visibleItems
                 /\ SetTransform(SetItems(St, items, 0), t).tasks = tasks)
    /\ [][enabled /\ rafCallbacks' < rafCallbacks =>
             /\ rafCallbacks' = 0 /\ ~renderScheduled'
             /\ appliedTransform' = transform
             /\ PathsOf(FirstBatch(GetItemsInViewport(St))) \subseteq DOMAIN visibleItems'
             /\ DOMAIN visibleItems' \ DOMAIN visibleItems
                    \subseteq PathsOf(FirstBatch(GetItemsInViewport(St)))
             /\ tasks' = IF Len(GetItemsInViewport(St)) > BatchSize
                         THEN Append(tasks, [items |-> GetItemsInViewport(St),
                                             processedCount |-> BatchSize])
                         ELSE tasks]_vars

\* While the pass that initialize() scheduled is pending, setItems has stored
\* two items and setTransform has panned the view: one callback is registered,
\* nothing has been entered, and the tick enters an item of the store
C29_Witness ==
    /\ enabled /\ renderScheduled /\ rafCallbacks = 1
    /\ Len(itemData) = 2
    /\ transform.translateX = 0 - 1000
    /\ DOMAIN visibleItems = {}
    /\ \A h \in 1..Len(handles) : handles[h].listeners = NoItem
    /\ DOMAIN RafCallback(St).visibleItems # {}

\* processIncrementally(items, processFunc) of render() run to its end: the
\* first batch, then the batches it defers, each in its own task; batches
\* counts the calls of processBatch
RECURSIVE Drain(_, _)
Drain(s, batches) ==
    IF s.tasks = <<>> THEN [s |-> s, batches |-> batches]
    ELSE Drain(TimerCallback(s), batches + 1)

ProcessAll(items) == Drain(ProcessIncrementally(St, items), 1)

\* The items of the list that have no element, which processFunc renders
NewItems(items) == SelectSeq(items, LAMBDA it : it.path \notin DOMAIN visibleItems)

\* Each new item was rendered once, in list order: the i-th of them into the
\* i-th element from the top of the idle list, which lost just those elements
RenderedInOrder(r, new) ==
    /\ \A i \in 1..Len(new) :
          /\ new[i].path \in DOMAIN r.visibleItems
          /\ r.visibleItems[new[i].path] = directoryPool[Len(directoryPool) - i + 1]
    /\ r.directoryPool = SubSeq(directoryPool, 1, Len(directoryPool) - Len(new))
    /\ DOMAIN r.visibleItems = DOMAIN visibleItems \cup PathsOf(new)

InputStep == itemData' # itemData \/ transform' # transform \/ enabled' # enabled

\* Every stored item whose box meets the margin-expanded visible rectangle has
\* an element in visibleItems that is bound to it and shown
AllInViewEntered ==
    \A i \in 1..Len(itemData) :
        IsItemVisible(St, itemData[i], GetVisibleContentRect(St)) =>
            /\ itemData[i].path \in DOMAIN visibleItems
            /\ handles[visibleItems[itemData[i].path]].path = itemData[i].path
            /\ handles[visibleItems[itemData[i].path]].display
            /\ handles[visibleItems[itemData[i].path]].parent

\* C31 -- Eventual visibility: under fair delivery of ticks and timers, unless
\* input keeps arriving, from some point on the engine, while enabled, has
\* every item whose box overlaps the margin-expanded visible rectangle in
\* visibleItems with an element bound to it.
C31_EventualVisibility ==
    \/ []<><<InputStep>>_vars
    \/ <>[](enabled => AllInViewEntered)

\* Two items in view are stored and enabled, a pass is pending, and neither
\* has an element yet
C31_Witness ==
    /\ enabled /\ rafCallbacks = 1
    /\ Len(itemData) = 2
    /\ \A i \in 1..2 : IsItemVisible(St, itemData[i], GetVisibleContentRect(St))
    /\ DOMAIN visibleItems = {}
    /\ ~AllInViewEntered

\* scale * (x of the center of the item - x of the center of the visible
\* rectangle), scale in units of 1/ScaleDen, and the same for y
CenterDx(item) ==
    transform.scale * (item.position.x + (ItemWidth \div 2))
        - (GetVisibleContentRect(St).left + (GetVisibleContentRect(St).width \div 2))
CenterDy(item) ==
    transform.scale * (item.position.y + (ItemHeight \div 2))
        - (GetVisibleContentRect(St).top + (GetVisibleContentRect(St).height \div 2))

\* distance / scale < k * T, both sides multiplied by scale * scale and
\* squared: with the scale s / ScaleDen the right side is (k T s s / ScaleDen)^2,
\* and T / ScaleDen is a whole number
NormalizedWithin(item, k) ==
    CenterDx(item) * CenterDx(item) + CenterDy(item) * CenterDy(item)
        < (k * (DetailDistanceThreshold \div ScaleDen) * transform.scale * transform.scale)
          * (k * (DetailDistanceThreshold \div ScaleDen) * transform.scale * transform.scale)

\* C32 -- LOD distance fallback: when the scale is below every threshold, the
\* level of an item follows d = (distance from its center to the center of the
\* visible rectangle) / scale against the base threshold T: 1 if d < T, 2 if
\* d < 2T, otherwise 3.
C32_LodByDistance ==
    MetThresholds(transform.scale) = {} =>
        \A item \in GridItems :
            GetDetailLevel(St, item) =
                IF NormalizedWithin(item, 1) THEN 1
                ELSE IF NormalizedWithin(item, 2) THEN 2
                ELSE 3

\* C33 -- LOD update skipping is equivalent to updating always: when a pass
\* has completed, every item of its query result that has an element in
\* visibleItems has it at the detail level getDetailLevel gives under the
\* current transform, showing the name and at the position of the item stored
\* for the path.
C33_LodSkipEquivalent ==
    [][enabled /\ rafCallbacks' < rafCallbacks /\ tasks = <<>> /\ tasks' = <<>> =>
          \A item \in Range(GetItemsInViewport(St)) :
              item.path \in DOMAIN visibleItems' =>
                  /\ handles'[visibleItems'[item.path]].detailLevel
                        = GetDetailLevel(St, item)
                  /\ handles'[visibleItems'[item.path]].name = item.name
                  /\ handles'[visibleItems'[item.path]].position = item.position]_vars

\* The rectangle of the visibility query, as numerators over transform.scale
QueryRect == ExpandedRect(GetVisibleContentRect(St))

\* C34 -- Query rectangle: for the container size (W,H) and the transform, the
\* rectangle of the visibility query has left = -translateX/scale - m,
\* top = -translateY/scale - m, right = (-translateX + W)/scale + m and
\* bottom = (-translateY + H)/scale + m with m = renderMargin/scale (a value v
\* over the scale s/ScaleDen has the numerator v * ScaleDen over s); for 800 x
\* 600, scale 1 and no translation it is (-300,-300)-(1100,900), and the query
\* visits the bins from floor to ceil of those edges over the bin size.
C34_QueryRectangle ==
    /\ QueryRect.left = ((0 - transform.translateX) - RenderMargin) * ScaleDen
    /\ QueryRect.top = ((0 - transform.translateY) - RenderMargin) * ScaleDen
    /\ QueryRect.right
          = ((0 - transform.translateX) + viewportRect.width + RenderMargin) * ScaleDen
    /\ QueryRect.bottom
          = ((0 - transform.translateY) + viewportRect.height + RenderMargin) * ScaleDen
    /\ (transform = [scale |-> ScaleDen, translateX |-> 0, translateY |-> 0]
          /\ viewportRect = [width |-> 800, height |-> 600]) =>
            /\ QueryRect.left = (0 - 300) * transform.scale
            /\ QueryRect.top = (0 - 300) * transform.scale
            /\ QueryRect.right = 1100 * transform.scale
            /\ QueryRect.bottom = 900 * transform.scale
            /\ Range(QueryBinKeys(St, GetVisibleContentRect(St)))
                  = {<<bx, by>> : bx \in (0 - 1)..3, by \in (0 - 1)..2}

\* setTransform has zoomed out to 0.5 and panned the view over two stored
\* items, so that the margin of 300 pixels is 600 in content space
C34_Witness ==
    /\ transform = [scale |-> 10, translateX |-> 0 - 1000, translateY |-> 0 - 50]
    /\ Len(itemData) = 2
    /\ QueryRect.left = 700 * ScaleDen
    /\ Floor(QueryRect.left, transform.scale) = 1400

\* The transform puts the center of the item at the center of the container:
\* center * scale + translate = size / 2, the scale in units of 1/ScaleDen
Centered(s, item) ==
    /\ (item.position.x + (ItemWidth \div 2)) * s.transform.scale
          + s.transform.translateX * ScaleDen
            = (s.viewportRect.width * ScaleDen) \div 2
    /\ (item.position.y + (ItemHeight \div 2)) * s.transform.scale
          + s.transform.translateY * ScaleDen
            = (s.viewportRect.height * ScaleDen) \div 2

\* C35 -- focusOnItem centers the item: for a stored path, after
\* focusOnItem(path, s) the transform puts the center of the item at the center
\* of the container, at scale s when s is given and at the previous scale
\* otherwise; for a path that is not stored the call changes nothing and
\* schedules no pass.
C35_FocusCenters ==
    \A path \in Paths, scale \in {0} \cup QueryScales :
        IF path \in DataPaths(itemData)
        THEN /\ Centered(FocusOnItem(St, path, scale), DataGet(itemData, path))
             /\ FocusOnItem(St, path, scale).transform.scale
                   = IF scale # 0 THEN scale ELSE transform.scale
        ELSE FocusOnItem(St, path, scale) = St

\* focusOnItem("b", 0.5) has centred item b of two stored items at scale 0.5
C35_Witness ==
    /\ Len(itemData) = 2
    /\ transform.scale = 10
    /\ Centered(St, DataGet(itemData, "b"))
    /\ ~Centered(St, DataGet(itemData, "a"))
    /\ appliedTransform = transform

\* Whether the path is in the item store, the spatial index or visibleItems
Known(path) ==
    \/ path \in DataPaths(itemData)
    \/ path \in DOMAIN spatialIndex.items
    \/ \E k \in DOMAIN spatialIndex.bins : path \in Range(spatialIndex.bins[k])
    \/ path \in DOMAIN visibleItems

\* C36 -- removeItem of an unknown path is a no-op: for a path that is in
\* neither itemData, the spatial index nor visibleItems, removeItem(path)
\* raises no error and leaves itemData, the bins, the reverse map, visibleItems,
\* the pools and the rest of the engine as they are.
C36_RemoveUnknownNoOp ==
    \A path \in Paths \cup {"c"} :
        ~Known(path) => RemoveItem(St, path) = St

\* Item a is stored, indexed and has its element, and path b is unknown
C36_Witness ==
    /\ DataPaths(itemData) = {"a"}
    /\ DOMAIN visibleItems = {"a"}
    /\ DOMAIN spatialIndex.bins # {}
    /\ ~Known("b")
    /\ RemoveItem(St, "b") = St

\* C37 -- Index bookkeeping is consistent: after any sequence of setItems,
\* addItem, removeItem and dispose the paths of the reverse map are the paths
\* of itemData, and a key is in the list recorded for a path if and only if the
\* path is in the bin of that key.
C37_IndexBookkeeping ==
    /\ DOMAIN spatialIndex.items = DataPaths(itemData)
    /\ \A p \in DOMAIN spatialIndex.items :
          Range(spatialIndex.items[p]) = BinsOf(spatialIndex, p)
    /\ \A k \in DOMAIN spatialIndex.bins :
          \A p \in Range(spatialIndex.bins[k]) :
              p \in DOMAIN spatialIndex.items /\ k \in Range(spatialIndex.items[p])

\* After dispose() the host has added item a across the line between two
\* cells again, and the index holds its six bins
C37_Witness ==
    /\ Disposed
    /\ DataPaths(itemData) = {"a"}
    /\ Cardinality(DOMAIN spatialIndex.bins) = 6
    /\ Len(spatialIndex.items["a"]) = 6

\* The stored item is among the items the index query returns
Returned(item) ==
    \E i \in 1..Len(QueryVisibleItemsFromSpatialIndex(St, GetVisibleContentRect(St))) :
        QueryVisibleItemsFromSpatialIndex(St, GetVisibleContentRect(St))[i] = item

\* C38 -- The index query has no false negatives: with the index consistent,
\* every stored item that isItemVisible accepts for a view and scale is returned
\* by queryVisibleItemsFromSpatialIndex for the same view and scale, items whose
\* edge is on the line between two cells or on the edge of the rectangle
\* included.
C38_NoFalseNegatives ==
    \A i \in 1..Len(itemData) :
        IsItemVisible(St, itemData[i], GetVisibleContentRect(St)) => Returned(itemData[i])

\* The right edge of the stored item is on the line between two cells and on
\* the left edge of the margin-expanded view, and isItemVisible accepts it
C38_Witness ==
    \E i \in 1..Len(itemData) :
        /\ (itemData[i].position.x + ItemWidth) % BinSize = 0
        /\ (itemData[i].position.x + ItemWidth) * transform.scale
               = ExpandedRect(GetVisibleContentRect(St)).left
        /\ IsItemVisible(St, itemData[i], GetVisibleContentRect(St))
        /\ Returned(itemData[i])

\* C39 -- The Visible Set never outlives the Item Store: in every state in
\* which no pass and no deferred batch is executing, every path of visibleItems
\* is a path of itemData.
C39_VisibleWithinStore ==
    ~isRendering => DOMAIN visibleItems \subseteq DataPaths(itemData)

====
